---- MODULE Spec2Model ----
(***************************************************************************)
(* Model of src/Beispielprojekt/Beispielprojekt.cpp: the per-frame update  *)
(* of the side-scroller (GameWindow::update, Player::update, Player::die,  *)
(* rects_overlap).                                                         *)
(*                                                                         *)
(* Units.  Every coordinate, size and velocity of the program is a double  *)
(* that is a multiple of 0.5 (gravity 0.5, speeds 3 and 10, integer level  *)
(* data, platform offset 25) and far below 2^53, so the double arithmetic  *)
(* of the program is exact.  The model stores each of them in HALF PIXELS, *)
(* i.e. multiplied by 2, as an integer.  Clock values are milliseconds.    *)
(***************************************************************************)
EXTENDS Integers, Sequences, FiniteSets, TLC

\* ------------------------------------------------------------------ bounds
MaxTicks == 2      \* explored frames after the start state
Frame == 16        \* ms between two frames, short step
LongStep == 4984   \* ms between two frames, long step (a stalled window)
LiveTicks == 1     \* explored frames under LiveSpec, before the idle frames
FallTicks == 100   \* calls of Player::update followed under FallSpec

\* ------------------------------------------------------- program constants
gravity == 1               \* 0.5
jump_strength == -20       \* -10.0
move_speed == 6            \* 3.0
player_size == 100         \* Objekt(x, y, 50, 50)
world_width == 4000        \* 2000
world_height == 2000       \* 1000
platform_cooldown == 5000  \* ms
platform_lifetime == 5000  \* ms, the literal of the expiry test
temp_width == 200          \* double width = 100
temp_height == 30          \* double height = 15
temp_gap == 4              \* player->y + player->height + 2
max_jumps == 2             \* int jumps_available = 2
spawn_px == 300            \* Player(150, 100, ...)
spawn_py == 200

\* F applied to the value of v; v is computed once, before F is applied
With(v, F(_)) == CHOOSE r \in { F(x) : x \in {v} } : TRUE

Rect(px, py, w, h) == [x |-> px, y |-> py, width |-> w, height |-> h]

\* GameWindow::platforms, in push_back order
platforms ==
  << Rect(0, 1900, 4000, 100), Rect(600, 1600, 500, 60),
     Rect(1400, 1400, 500, 60), Rect(2600, 1700, 600, 50),
     Rect(3400, 1200, 400, 60), Rect(3600, 800, 240, 60),
     Rect(200, 1300, 360, 40) >>

\* GameWindow::obstacles, in push_back order (Obstacle(x, y, size))
obstacles ==
  << Rect(1000, 1840, 80, 80), Rect(1800, 1340, 80, 80),
     Rect(2700, 1640, 80, 80), Rect(3600, 1140, 80, 80) >>

\* the null unique_ptr<Platform>
NoPlatform == [x |-> 0, y |-> 0, width |-> 0, height |-> 0]

\* the four keys the program polls with input().down(...)
Keys == [left : BOOLEAN, right : BOOLEAN, up : BOOLEAN, down : BOOLEAN]

\* ------------------------------------------------------------------ Player
\* Player::Player and the member initialisers
NewPlayer ==
  [x |-> spawn_px, y |-> spawn_py, width |-> player_size, height |-> player_size,
   velocity_x |-> 0, velocity_y |-> 0, on_ground |-> FALSE,
   jumps_available |-> max_jumps, spawn_x |-> spawn_px, spawn_y |-> spawn_py,
   jump_in_progress |-> FALSE]

\* velocity_x = 0; left subtracts, right adds
HorizontalVelocity(in) ==
  (IF in.left THEN 0 - move_speed ELSE 0) + (IF in.right THEN move_speed ELSE 0)

CanJumpNoBudget(p) == ~p.jump_in_progress

CanJumpNoLatch(p) == p.jumps_available > 0

\* the guard of the jump: jumps_available > 0 && !jump_in_progress
CanJump(p) == p.jumps_available > 0 /\ ~p.jump_in_progress

JumpStepNoCount(p, in) ==
  IF in.up
    THEN IF p.jumps_available > 0 /\ ~p.jump_in_progress
           THEN [p EXCEPT !.velocity_y = jump_strength, !.on_ground = FALSE,
                          !.jump_in_progress = TRUE]
           ELSE p
    ELSE [p EXCEPT !.jump_in_progress = FALSE]

\* the "Double jump logic" block
JumpStep(p, in) ==
  IF in.up
    THEN IF CanJump(p)
           THEN [p EXCEPT !.velocity_y = jump_strength, !.on_ground = FALSE,
                          !.jumps_available = p.jumps_available - 1,
                          !.jump_in_progress = TRUE]
           ELSE p
    ELSE [p EXCEPT !.jump_in_progress = FALSE]

\* all_platforms: the static platforms, then the temp platform if non-null
AllPlatforms(temp) ==
  IF temp = NoPlatform THEN platforms ELSE Append(platforms, temp)

LandsExact(p, plat, next_x, next_y, vy) ==
  LET within_x == next_x + p.width > plat.x /\ next_x < plat.x + plat.width
      falling_onto == p.y + p.height <= plat.y /\ next_y + p.height = plat.y
  IN  within_x /\ falling_onto /\ vy >= 0

LandsFromAbove(p, plat, next_x, next_y, vy) ==
  LET within_x == next_x + p.width > plat.x /\ next_x < plat.x + plat.width
      falling_onto == p.y + p.height < plat.y /\ next_y + p.height >= plat.y
  IN  within_x /\ falling_onto /\ vy >= 0

\* the landing test of one platform against the current loop values
Lands(p, plat, next_x, next_y, vy) ==
  LET within_x == next_x + p.width > plat.x /\ next_x < plat.x + plat.width
      falling_onto == p.y + p.height <= plat.y /\ next_y + p.height >= plat.y
  IN  within_x /\ falling_onto /\ vy >= 0

RECURSIVE ResolveLastWins(_, _, _, _, _)
ResolveLastWins(p, plats, i, next_x, acc) ==
  IF i > Len(plats) THEN acc
  ELSE With(IF Lands(p, plats[i], next_x, p.y + p.velocity_y + gravity,
                     p.velocity_y + gravity)
              THEN [next_y |-> plats[i].y - p.height, velocity_y |-> 0,
                    on_any_platform |-> TRUE]
              ELSE acc,
            LAMBDA a : ResolveLastWins(p, plats, i + 1, next_x, a))

\* the for loop over all_platforms; acc carries next_y, velocity_y and
\* on_any_platform from one iteration to the next
RECURSIVE Resolve(_, _, _, _, _)
Resolve(p, plats, i, next_x, acc) ==
  IF i > Len(plats) THEN acc
  ELSE With(IF Lands(p, plats[i], next_x, acc.next_y, acc.velocity_y)
              THEN [next_y |-> plats[i].y - p.height, velocity_y |-> 0,
                    on_any_platform |-> TRUE]
              ELSE acc,
            LAMBDA a : Resolve(p, plats, i + 1, next_x, a))

\* "World borders", horizontal part
ClampX(p) ==
  LET a == IF p.x < 0 THEN [p EXCEPT !.x = 0] ELSE p
  IN  IF a.x + a.width > world_width THEN [a EXCEPT !.x = world_width - a.width]
      ELSE a

ClampYNoTop(p) ==
  IF p.y + p.height > world_height
    THEN [p EXCEPT !.y = world_height - p.height, !.velocity_y = 0,
                   !.on_ground = TRUE]
    ELSE p

\* "World borders", vertical part
ClampY(p) ==
  LET a == IF p.y < 0 THEN [p EXCEPT !.y = 0] ELSE p
  IN  IF a.y + a.height > world_height
        THEN [a EXCEPT !.y = world_height - a.height, !.velocity_y = 0,
                       !.on_ground = TRUE]
        ELSE a

RestoreJumpsNever(p) == p

\* if (on_ground) jumps_available = 2;
RestoreJumps(p) ==
  IF p.on_ground THEN [p EXCEPT !.jumps_available = max_jumps] ELSE p

PlayerUpdateOnKeepVelocity(p, in, all) ==
  With(JumpStep([p EXCEPT !.velocity_x = HorizontalVelocity(in)], in), LAMBDA j :
    LET vy == j.velocity_y + gravity
        next_x == j.x + j.velocity_x
        next_y == j.y + vy
    IN  With(Resolve(j, all, 1, next_x, [next_y |-> next_y, velocity_y |-> vy, on_any_platform |-> FALSE]),
             LAMBDA r : With([j EXCEPT !.x = next_x, !.y = r.next_y, !.velocity_y = vy, !.on_ground = r.on_any_platform],
                    LAMBDA moved : With(With(ClampX(moved), ClampY), RestoreJumps))))

\* Player::update from the jump block on, given all_platforms
PlayerUpdateOn(p, in, all) ==
  With(JumpStep([p EXCEPT !.velocity_x = HorizontalVelocity(in)], in), LAMBDA j :
    LET vy == j.velocity_y + gravity
        next_x == j.x + j.velocity_x
        next_y == j.y + vy
    IN  With(Resolve(j, all, 1, next_x,
               [next_y |-> next_y, velocity_y |-> vy, on_any_platform |-> FALSE]),
             LAMBDA r :
               With([j EXCEPT !.x = next_x, !.y = r.next_y,
                              !.velocity_y = r.velocity_y,
                              !.on_ground = r.on_any_platform],
                    LAMBDA moved :
                      With(With(ClampX(moved), ClampY), RestoreJumps))))

\* Player::update as GameWindow::update calls it
PlayerUpdate(p, in, temp) ==
  With(AllPlatforms(temp), LAMBDA all : PlayerUpdateOn(p, in, all))

DieKeepVelocity(p) ==
  [p EXCEPT !.x = p.spawn_x, !.y = p.spawn_y, !.jumps_available = max_jumps]

DieClearGround(p) ==
  [p EXCEPT !.x = p.spawn_x, !.y = p.spawn_y, !.velocity_x = 0,
            !.velocity_y = 0, !.jumps_available = max_jumps,
            !.on_ground = FALSE, !.jump_in_progress = FALSE]

\* Player::die
Die(p) ==
  [p EXCEPT !.x = p.spawn_x, !.y = p.spawn_y, !.velocity_x = 0,
            !.velocity_y = 0, !.jumps_available = max_jumps]

rects_overlapTouching(a, b) ==
  /\ a.x <= b.x + b.width
  /\ a.x + a.width >= b.x
  /\ a.y <= b.y + b.height
  /\ a.y + a.height >= b.y

\* rects_overlap: strict on all four sides
rects_overlap(a, b) ==
  /\ a.x < b.x + b.width
  /\ a.x + a.width > b.x
  /\ a.y < b.y + b.height
  /\ a.y + a.height > b.y

\* the "Obstacle collision" loop
RECURSIVE ObstacleCheck(_, _)
ObstacleCheck(p, i) ==
  IF i > Len(obstacles) THEN p
  ELSE With(IF rects_overlap(p, obstacles[i]) THEN Die(p) ELSE p,
            LAMBDA q : ObstacleCheck(q, i + 1))

\* -------------------------------------------------------------- GameWindow
CanCreateOverExisting(temp, now, last_placed) ==
  ~(now - last_placed < platform_cooldown)

CanCreateNoCooldown(temp, now, last_placed) == temp = NoPlatform

\* !temp_platform && !on_cooldown, with
\* on_cooldown = (Gosu::milliseconds() - temp_platform_last_placed < platform_cooldown).
\* The clock never runs backwards, so the unsigned difference does not wrap.
CanCreate(temp, now, last_placed) ==
  temp = NoPlatform /\ ~(now - last_placed < platform_cooldown)

\* the Platform built under the player's feet
NewTempPlatform(p) ==
  Rect(p.x + (p.width \div 2) - (temp_width \div 2), p.y + p.height + temp_gap,
       temp_width, temp_height)

ExpiredAtLifetime(temp, now, created) ==
  temp /= NoPlatform /\ now - created >= platform_lifetime

\* temp_platform && Gosu::milliseconds() - temp_platform_created > 5000
Expired(temp, now, created) ==
  temp /= NoPlatform /\ now - created > platform_lifetime

\* GameWindow::GameWindow and the member initialisers; clock is the value of
\* Gosu::milliseconds(), frame_ms the value it had when the last frame began
NewGame ==
  [player |-> NewPlayer, temp_platform |-> NoPlatform,
   temp_platform_created |-> 0, temp_platform_last_placed |-> 0,
   down_pressed_last_frame |-> FALSE, clock |-> 0, frame_ms |-> 0]

LifecycleLevel(g, in, r1, r2, r3) ==
  LET create == in.down /\ CanCreate(g.temp_platform, r1, g.temp_platform_last_placed)
      placed == IF create THEN NewTempPlatform(g.player) ELSE g.temp_platform
      created == IF create THEN r2 ELSE g.temp_platform_created
      last_placed == IF create THEN r2 ELSE g.temp_platform_last_placed
  IN  [g EXCEPT !.temp_platform = IF Expired(placed, r3, created)
                                    THEN NoPlatform ELSE placed,
                !.temp_platform_created = created,
                !.temp_platform_last_placed = last_placed,
                !.down_pressed_last_frame = in.down,
                !.clock = r3, !.frame_ms = r1]

\* the "Platform cooldown/creation" and "Remove temp platform" blocks.
\* r1, r2, r3: the values of the three calls of Gosu::milliseconds()
Lifecycle(g, in, r1, r2, r3) ==
  LET rising == in.down /\ ~g.down_pressed_last_frame
      create == rising /\ CanCreate(g.temp_platform, r1, g.temp_platform_last_placed)
      placed == IF create THEN NewTempPlatform(g.player) ELSE g.temp_platform
      created == IF create THEN r2 ELSE g.temp_platform_created
      last_placed == IF create THEN r2 ELSE g.temp_platform_last_placed
  IN  [g EXCEPT !.temp_platform = IF Expired(placed, r3, created)
                                    THEN NoPlatform ELSE placed,
                !.temp_platform_created = created,
                !.temp_platform_last_placed = last_placed,
                !.down_pressed_last_frame = in.down,
                !.clock = r3, !.frame_ms = r1]

UpdatePlayerFirst(g, in, dt, d2, d3) ==
  With(PlayerUpdate(g.player, in, g.temp_platform), LAMBDA moved :
    With(Lifecycle(g, in, g.clock + dt, g.clock + dt + d2, g.clock + dt + d2 + d3),
         LAMBDA l :
           [game |-> [l EXCEPT !.player = ObstacleCheck(moved, 1)],
            upd |-> moved]))

\* GameWindow::update, one frame.  in: the keys held in this frame; dt: the
\* time since the previous frame; d2, d3: the time that passes before the
\* second and the third call of Gosu::milliseconds() within the frame.
\* The result pairs the game after the frame (game) with the player as
\* Player::update left it, before the obstacle loop (upd).
Update(g, in, dt, d2, d3) ==
  With(Lifecycle(g, in, g.clock + dt, g.clock + dt + d2, g.clock + dt + d2 + d3),
       LAMBDA l :
         With(PlayerUpdate(l.player, in, l.temp_platform), LAMBDA moved :
           [game |-> [l EXCEPT !.player = ObstacleCheck(moved, 1)],
            upd |-> moved]))

\* ---------------------------------------------------------------- observer
\* What an observer of the frames records; none of it is program state.
\*   up_held    the jump key was held in the last frame
\*   jumped     the last frame started a jump
\*   run_jumps  jumps started in the current unbroken hold of the jump key
\*   presses    presses of the jump key since the actor last stood on the
\*              ground with the key released; -1 when there was a respawn or
\*              a landing with the key held since
\*   upd        the player as the last Player::update left it
NewWatch ==
  [up_held |-> FALSE, jumped |-> FALSE, run_jumps |-> 0, presses |-> -1,
   upd |-> NewPlayer]

Observe(w, g, in, u) ==
  LET jumps == JumpStep(g.player, in).jumps_available /= g.player.jumps_available
      died == u.game.player /= u.upd
      press == in.up /\ ~w.up_held
  IN  [up_held |-> in.up,
       jumped |-> jumps,
       run_jumps |-> IF in.up
                       THEN (IF w.up_held THEN w.run_jumps ELSE 0)
                            + (IF jumps THEN 1 ELSE 0)
                       ELSE 0,
       presses |-> IF died THEN -1
                   ELSE IF u.upd.on_ground THEN (IF in.up THEN -1 ELSE 0)
                   ELSE IF w.presses >= 0 /\ press
                          THEN (IF w.presses < 3 THEN w.presses + 1 ELSE 3)
                   ELSE w.presses,
       upd |-> u.upd]

\* one frame of the game together with its observer
Frame1(s, in, dt, d2, d3) ==
  With(Update(s.game, in, dt, d2, d3), LAMBDA u :
    [game |-> u.game, watch |-> Observe(s.watch, s.game, in, u)])

\* ------------------------------------------------------------ start states
\* A script is a sequence of <<keys, n, dt>>: hold these keys for n frames,
\* the frames dt ms apart.  Every start state is the state the program is in
\* after construction and one of the scripts.
RECURSIVE RunFrames(_, _, _, _)
RunFrames(s, in, n, dt) ==
  IF n = 0 THEN s
  ELSE IF n = 1 THEN Frame1(s, in, dt, 0, 0)
  ELSE LET half == RunFrames(s, in, n \div 2, dt)
       IN  \* the test makes TLC compute the first half before the second
           IF half.game.clock >= 0 THEN RunFrames(half, in, n - (n \div 2), dt)
           ELSE half

RECURSIVE RunScript(_, _, _)
RunScript(s, script, i) ==
  IF i > Len(script) THEN s
  ELSE RunScript(RunFrames(s, script[i][1], script[i][2], script[i][3]),
                 script, i + 1)

Hold(keys) ==
  [left |-> "l" \in keys, right |-> "r" \in keys, up |-> "u" \in keys,
   down |-> "d" \in keys]

\* 50 idle frames: the player has fallen onto platform 7 and stands on it
Settle == <<Hold({}), 50, Frame>>

Scripts ==
  { \* just constructed
    << >>,
    \* standing on platform 7
    << Settle >>,
    \* one jump made, key released, rising
    << Settle, <<Hold({"u"}), 1, Frame>>, <<Hold({}), 1, Frame>> >>,
    \* both jumps made, key released, two frames above platform 7
    << Settle, <<Hold({"u"}), 1, Frame>>, <<Hold({}), 1, Frame>>,
       <<Hold({"u"}), 1, Frame>>, <<Hold({}), 38, Frame>> >>,
    \* both jumps made, a third press held, one frame above platform 7
    << Settle, <<Hold({"u"}), 1, Frame>>, <<Hold({}), 1, Frame>>,
       <<Hold({"u"}), 1, Frame>>, <<Hold({}), 37, Frame>>,
       <<Hold({"u"}), 2, Frame>> >>,
    \* one jump made, key held ever since, one frame above platform 7
    << Settle, <<Hold({"u"}), 38, Frame>> >>,
    \* on the floor, walking left, 3 px right of spike 1
    << Settle, <<Hold({"r"}), 160, Frame>>, <<Hold({"l"}), 29, Frame>> >>,
    \* both jumps made right after construction, half a pixel below y = 0
    << <<Hold({"u"}), 1, Frame>>, <<Hold({}), 1, Frame>>,
       <<Hold({"u"}), 1, Frame>>, <<Hold({}), 11, Frame>> >>,
    \* standing on platform 7, a temp platform placed, create key released
    << Settle, <<Hold({}), 1, LongStep>>, <<Hold({"d"}), 1, Frame>>,
       <<Hold({}), 1, Frame>> >>,
    \* standing on a temp platform placed in mid-jump, 75 px above platform 7
    << Settle, <<Hold({}), 1, LongStep>>, <<Hold({"u"}), 1, Frame>>,
       <<Hold({}), 10, Frame>>, <<Hold({"d"}), 1, Frame>>,
       <<Hold({}), 20, Frame>> >>,
    \* both jumps used, one frame above platform 7, a temp platform placed
    \* 2 px below the top of platform 7
    << Settle, <<Hold({}), 1, LongStep>>, <<Hold({"d"}), 1, Frame>>,
       <<Hold({"u"}), 1, Frame>>, <<Hold({}), 1, Frame>>,
       <<Hold({"u"}), 1, Frame>>, <<Hold({}), 39, Frame>> >> }

StartStates ==
  { RunScript([game |-> NewGame, watch |-> NewWatch], script, 1) : script \in Scripts }

\* ------------------------------------------------------------------- state
VARIABLES player, temp_platform, temp_platform_created,
          temp_platform_last_placed, down_pressed_last_frame,
          clock, frame_ms, watch, ticks

vars == << player, temp_platform, temp_platform_created,
           temp_platform_last_placed, down_pressed_last_frame,
           clock, frame_ms, watch, ticks >>

Game ==
  [player |-> player, temp_platform |-> temp_platform,
   temp_platform_created |-> temp_platform_created,
   temp_platform_last_placed |-> temp_platform_last_placed,
   down_pressed_last_frame |-> down_pressed_last_frame, clock |-> clock,
   frame_ms |-> frame_ms]

Init ==
  /\ \E s \in StartStates :
       /\ player = s.game.player
       /\ temp_platform = s.game.temp_platform
       /\ temp_platform_created = s.game.temp_platform_created
       /\ temp_platform_last_placed = s.game.temp_platform_last_placed
       /\ down_pressed_last_frame = s.game.down_pressed_last_frame
       /\ clock = s.game.clock
       /\ frame_ms = s.game.frame_ms
       /\ watch = s.watch
  /\ ticks = 0

\* the time a call of Gosu::milliseconds() may be ahead of the previous one
\* within a frame; 0 when the frame does not make the call
Drift(reads) == IF reads THEN {0, 1} ELSE {0}

\* one frame: Gosu calls GameWindow::update
Step ==
  \E in \in Keys, dt \in {Frame, LongStep} :
       LET creating == in.down /\ ~down_pressed_last_frame
                       /\ CanCreate(temp_platform, clock + dt,
                                    temp_platform_last_placed)
       IN \E d2 \in Drift(creating) :
          \E d3 \in Drift(creating \/ temp_platform /= NoPlatform) :
          \E s \in {Frame1([game |-> Game, watch |-> watch], in, dt, d2, d3)} :
            /\ player' = s.game.player
            /\ temp_platform' = s.game.temp_platform
            /\ temp_platform_created' = s.game.temp_platform_created
            /\ temp_platform_last_placed' = s.game.temp_platform_last_placed
            /\ down_pressed_last_frame' = s.game.down_pressed_last_frame
            /\ clock' = s.game.clock
            /\ frame_ms' = s.game.frame_ms
            /\ watch' = s.watch
            /\ ticks' = ticks + 1

\* a frame within the explored depth
Tick == ticks < MaxTicks /\ Step

Next == Tick

Spec == Init /\ [][Next]_vars

\* Gosu goes on calling GameWindow::update, also beyond the explored frames:
\* a frame with no key held, LongStep ms after the one before.  These frames
\* are followed for as long as a temp platform exists.
Coast ==
  /\ temp_platform /= NoPlatform
  /\ \E d3 \in Drift(TRUE) :
     \E s \in {Frame1([game |-> Game, watch |-> watch], Hold({}), LongStep, 0, d3)} :
       /\ player' = s.game.player
       /\ temp_platform' = s.game.temp_platform
       /\ temp_platform_created' = s.game.temp_platform_created
       /\ temp_platform_last_placed' = s.game.temp_platform_last_placed
       /\ down_pressed_last_frame' = s.game.down_pressed_last_frame
       /\ clock' = s.game.clock
       /\ frame_ms' = s.game.frame_ms
       /\ watch' = s.watch
       /\ ticks' = ticks

\* a frame within the depth explored under LiveSpec
LiveTick == ticks < LiveTicks /\ Step

LiveNext == LiveTick \/ Coast

\* the frames keep coming (Gosu's main loop) and each one advances the clock
LiveSpec == Init /\ [][LiveNext]_vars /\ WF_vars(Coast)

\* Player::update alone, called again and again with no key held on the
\* constructed player, the platform list holding the floor platform only
FallPlatforms == << platforms[1] >>

FallInit ==
  /\ player = NewGame.player
  /\ temp_platform = NewGame.temp_platform
  /\ temp_platform_created = NewGame.temp_platform_created
  /\ temp_platform_last_placed = NewGame.temp_platform_last_placed
  /\ down_pressed_last_frame = NewGame.down_pressed_last_frame
  /\ clock = NewGame.clock
  /\ frame_ms = NewGame.frame_ms
  /\ watch = NewWatch
  /\ ticks = 0

\* one call of Player::update; the time between two calls is free and has no
\* part in the call
FallTick ==
  /\ ticks < FallTicks
  /\ \E dt \in {Frame, LongStep} :
     \E p \in {PlayerUpdateOn(player, Hold({}), FallPlatforms)} :
       /\ player' = p
       /\ watch' = [watch EXCEPT !.upd = p]
       /\ clock' = clock + dt
       /\ frame_ms' = clock + dt
       /\ ticks' = ticks + 1
       /\ UNCHANGED << temp_platform, temp_platform_created,
                       temp_platform_last_placed, down_pressed_last_frame >>

FallNext == FallTick

\* the calls keep coming
FallSpec == FallInit /\ [][FallNext]_vars /\ WF_vars(FallTick)

\* ------------------------------------------------------------------ claims
Max(a, b) == IF a >= b THEN a ELSE b

Bottom(p) == p.y + p.height

\* the jump key went from released to held in the frame just made
JumpPressed == watch'.up_held /\ ~watch.up_held

\* the create key went from released to held in the frame just made
CreatePressed == down_pressed_last_frame' /\ ~down_pressed_last_frame

\* C1: the jump budget is an integer between 0 and 2, after Player::update
\* and at the end of the frame
JumpBudgetInRange ==
  /\ player.jumps_available \in 0..max_jumps
  /\ watch.upd.jumps_available \in 0..max_jumps

\* a frame started a jump that used the last unit of the budget
C1Witness == ticks >= 1 /\ watch.jumped /\ player.jumps_available = 0

\* C2: a jump starts only in a frame where the jump key is held and was not
\* held in the frame before
JumpOnlyOnPress == [][watch'.jumped => JumpPressed]_vars

\* C3: counting presses from an actor on the ground with the key released,
\* without landing or respawn: press one and press two take one unit each
\* and set the velocity to the jump strength (plus the frame's gravity);
\* from the third press on the budget stays 0 and the velocity only grows
\* by gravity
DoubleJumpCap ==
  [][/\ watch'.presses >= 0 =>
          player'.jumps_available = Max(0, max_jumps - watch'.presses)
     /\ (JumpPressed /\ watch'.presses \in {1, 2}) =>
          player'.velocity_y = jump_strength + gravity
     /\ (JumpPressed /\ watch'.presses = 3) =>
          player'.velocity_y = player.velocity_y + gravity]_vars

\* the third press has just been made in the air
C3Witness ==
  /\ ticks >= 1 /\ watch.presses = 3 /\ watch.up_held /\ ~watch.jumped
  /\ ~player.jump_in_progress /\ player.jumps_available = 0

\* C4: within one unbroken hold of the jump key the budget is decremented
\* at most once
HeldRunOneJump == watch.run_jumps <= 1

\* the key is held since a jump and the actor has landed meanwhile, or has
\* been respawned meanwhile
C4Witness ==
  /\ ticks >= 1 /\ watch.run_jumps = 1 /\ watch.up_held /\ ~watch.jumped
  /\ watch.upd.on_ground /\ player.jumps_available = max_jumps

\* C5: whenever Player::update ends with on_ground true, jumps_available is 2
GroundedRestoresBudget ==
  watch.upd.on_ground => watch.upd.jumps_available = max_jumps

\* the actor has landed while a press that found the budget empty is held
C5Witness ==
  /\ ticks >= 1 /\ watch.upd.on_ground /\ watch.up_held
  /\ ~watch.upd.jump_in_progress /\ watch.upd.jumps_available = max_jumps

\* the landing case of C6 for platform plat in the frame just made: the
\* velocity after gravity vy, the tentative position, the four conditions
LandingCase(plat) ==
  LET vy == (IF watch'.jumped THEN jump_strength ELSE player.velocity_y) + gravity
      next_x == player.x + watch'.upd.velocity_x
      next_y == player.y + vy
  IN  /\ Bottom(player) <= plat.y
      /\ vy >= 0
      /\ next_y + player.height >= plat.y
      /\ next_x + player.width > plat.x /\ next_x < plat.x + plat.width

\* the platform set of the frame just made
FramePlatforms ==
  LET all == AllPlatforms(temp_platform') IN { all[i] : i \in 1..Len(all) }

\* C6 as stated: in the landing case of a platform the update ends with the
\* bottom edge exactly on that platform's top, velocity 0, grounded
NoTunnelExact ==
  [][\A plat \in FramePlatforms :
       LandingCase(plat) =>
         /\ Bottom(watch'.upd) = plat.y
         /\ watch'.upd.velocity_y = 0
         /\ watch'.upd.on_ground]_vars

\* C6 amended: in the landing case of a platform the update ends with the
\* bottom edge on the top of the highest platform that is in the landing
\* case, so at or above this platform's top, velocity 0, grounded
NoTunnel ==
  [][\A plat \in FramePlatforms :
       LandingCase(plat) =>
         /\ Bottom(watch'.upd) <= plat.y
         /\ \E q \in FramePlatforms :
              /\ LandingCase(q) /\ Bottom(watch'.upd) = q.y
              /\ \A o \in FramePlatforms : LandingCase(o) => q.y <= o.y
         /\ watch'.upd.velocity_y = 0
         /\ watch'.upd.on_ground]_vars

\* the actor has come down on a temp platform that lies less than a frame's
\* fall above platform 7
C6Witness ==
  /\ ticks >= 1 /\ watch.upd.on_ground /\ temp_platform /= NoPlatform
  /\ Bottom(watch.upd) = temp_platform.y
  /\ temp_platform.y < platforms[7].y /\ temp_platform.y >= platforms[7].y - 20
  /\ watch.upd.x + watch.upd.width > platforms[7].x

\* C7: after Player::update and at the end of the frame the actor's box is
\* inside the world
WorldClamp ==
  \A p \in {player, watch.upd} :
    /\ 0 <= p.x /\ p.x <= world_width - p.width
    /\ 0 <= p.y /\ p.y <= world_height - p.height

\* the actor, still rising, is held at the world's top
C7Witness == ticks >= 1 /\ player.y = 0 /\ player.velocity_y < 0

\* the actor as Player::update left it overlaps some obstacle
HitObstacle ==
  \E i \in 1..Len(obstacles) : rects_overlap(watch.upd, obstacles[i])

\* C8: a frame whose Player::update leaves the actor overlapping an obstacle
\* ends with the actor at the spawn point of the constructor, velocity (0,0)
\* and budget 2
HazardRespawn ==
  HitObstacle =>
    /\ player.x = spawn_px /\ player.y = spawn_py
    /\ player.velocity_x = 0 /\ player.velocity_y = 0
    /\ player.jumps_available = max_jumps

\* the actor has walked into a spike
C8Witness == ticks >= 1 /\ HitObstacle /\ watch.upd.velocity_x /= 0

\* C9: a press of the create key while a temp platform exists places no
\* platform: the platform stays where it is (or expires in that frame) and
\* both timestamps stay as they are
TransientExclusive ==
  [][(CreatePressed /\ temp_platform /= NoPlatform) =>
       /\ temp_platform' \in {temp_platform, NoPlatform}
       /\ temp_platform_created' = temp_platform_created
       /\ temp_platform_last_placed' = temp_platform_last_placed]_vars

\* the create key is down in the first frame after a start with the key
\* released, and the platform is older than the frame
C9Witness ==
  /\ ticks = 1 /\ down_pressed_last_frame /\ temp_platform /= NoPlatform
  /\ temp_platform_created < frame_ms

\* C10: a press of the create key at least 5000 ms after the last placement,
\* with no temp platform or one older than 5000 ms, places a platform in
\* that frame
CreateWhenDue ==
  [][(/\ CreatePressed
      /\ frame_ms' - temp_platform_last_placed >= platform_cooldown
      /\ \/ temp_platform = NoPlatform
         \/ frame_ms' - temp_platform_created > platform_lifetime) =>
       /\ temp_platform' /= NoPlatform
       /\ temp_platform_created' >= frame_ms']_vars

\* C11: a temp platform is in the platform set of every frame whose expiry
\* test reads a clock of at most created + 5000 ms, whatever the keys, and of
\* no frame where it reads more; with the frames going on, every temp
\* platform is removed at last
PlatformLifetime ==
  /\ [](temp_platform /= NoPlatform =>
          clock - temp_platform_created <= platform_lifetime)
  /\ [][(temp_platform /= NoPlatform
         /\ clock' - temp_platform_created <= platform_lifetime) =>
          temp_platform' = temp_platform]_vars
  /\ [][temp_platform_created' /= temp_platform_created =>
          temp_platform' /= NoPlatform]_vars
  /\ (temp_platform /= NoPlatform ~> temp_platform = NoPlatform)

\* a temp platform has been removed by the expiry test
C11Witness ==
  /\ ticks >= 1 /\ temp_platform = NoPlatform /\ temp_platform_created > 0
  /\ clock - temp_platform_created > platform_lifetime

\* a temp platform has been placed in the frame just made
PlacedNow == temp_platform_created' /= temp_platform_created

\* C12: a temp platform is placed only in a frame where the create key is
\* held and was not held in the frame before, so within one hold only in
\* its first frame
CreateOnlyOnPress == [][PlacedNow => CreatePressed]_vars

\* the create key is held, nothing was ever placed, the cooldown is over:
\* the hold began during the cooldown and has outlasted it
C12Witness ==
  /\ ticks >= 1 /\ down_pressed_last_frame /\ temp_platform = NoPlatform
  /\ temp_platform_created = 0 /\ frame_ms >= platform_cooldown

\* the temp platform of the frame before is gone in the frame just made
ExpiredNow == temp_platform /= NoPlatform /\ temp_platform' = NoPlatform

\* the frame just made has respawned the actor
Respawned == player' /= watch'.upd

\* C13: the frame runs platform lifecycle, Player::update, obstacle check in
\* this order: the actor lands on a platform placed in the same frame, falls
\* past a platform that expired in the same frame, and is respawned exactly
\* when its box after Player::update overlaps an obstacle
TickOrder ==
  [][/\ (PlacedNow /\ LandingCase(temp_platform')) =>
          /\ watch'.upd.on_ground
          /\ Bottom(watch'.upd) <= temp_platform'.y
     /\ (/\ ExpiredNow
         /\ LandingCase(temp_platform)
         /\ \A plat \in FramePlatforms : ~LandingCase(plat)) =>
          /\ ~watch'.upd.on_ground
          /\ Bottom(watch'.upd) > temp_platform.y
     /\ Respawned <=> HitObstacle']_vars

\* the actor stood still and has begun to fall in the frame in which the
\* temp platform was removed
C13Witness ==
  /\ ticks >= 1 /\ temp_platform = NoPlatform
  /\ clock - temp_platform_created > platform_lifetime
  /\ clock - temp_platform_created < platform_lifetime + LongStep
  /\ ~watch.upd.on_ground /\ watch.upd.velocity_y = gravity
  /\ watch.upd.velocity_x = 0 /\ ~watch.jumped
  /\ watch.upd.jumps_available = max_jumps

\* the top of the floor platform (950)
FloorTop == platforms[1].y

\* C14: the constructed actor (50x50 at (150,100), at rest), updated with no
\* key held against the floor platform alone, never gets lower than y = 900,
\* comes to stand with its bottom edge on 950 after finitely many updates,
\* has vertical velocity 0 at the end of the update that lands it, and does
\* not change any more from then on
FallScenario ==
  /\ [](player.y <= FloorTop - player_size)
  /\ [](Bottom(player) = FloorTop => player.velocity_y = 0 /\ player.on_ground)
  /\ [][Bottom(player) = FloorTop => player' = player]_vars
  /\ <>(Bottom(player) = FloorTop)

\* the actor has landed on the floor platform and has been updated since
C14Witness ==
  /\ ticks = FallTicks /\ Bottom(player) = FloorTop
  /\ player.x = spawn_px /\ player.velocity_y = 0
  /\ FloorTop = 1900 /\ player.y = 1800

\* the positions in all_platforms of the platforms that are in the landing
\* case in the frame just made
Candidates ==
  LET all == AllPlatforms(temp_platform')
  IN  { i \in 1..Len(all) : LandingCase(all[i]) }

\* two platforms of different heights are in the landing case
Conflict ==
  LET all == AllPlatforms(temp_platform')
  IN  \E i, j \in Candidates : all[i].y /= all[j].y

\* C15 as stated: when platforms of different heights are in the landing case
\* the update ends with the actor on the one that comes last in all_platforms
LastCandidateWins ==
  [][Conflict =>
       LET all == AllPlatforms(temp_platform')
           last == CHOOSE k \in Candidates : \A j \in Candidates : j <= k
       IN  Bottom(watch'.upd) = all[last].y /\ watch'.upd.on_ground]_vars

\* C15 amended: when platforms of different heights are in the landing case
\* the update ends with the actor on the last one in all_platforms that is
\* not lower than any candidate before it; every candidate after it is lower
LastPassingWins ==
  [][Conflict =>
       LET all == AllPlatforms(temp_platform')
       IN  \E k \in Candidates :
             /\ \A j \in Candidates : j < k => all[k].y <= all[j].y
             /\ \A j \in Candidates : j > k => all[k].y < all[j].y
             /\ Bottom(watch'.upd) = all[k].y
             /\ watch'.upd.on_ground]_vars

\* the actor has come down on platform 7 although the temp platform, which
\* comes after it in all_platforms, lay within the frame's fall below it
C15Witness ==
  /\ ticks = 1 /\ temp_platform /= NoPlatform
  /\ temp_platform.y = platforms[7].y + temp_gap
  /\ Bottom(watch.upd) = platforms[7].y /\ watch.upd.on_ground
  /\ watch.upd.jumps_available = max_jumps /\ watch.presses = 0
  /\ clock - temp_platform_created > 40 * Frame

\* p stands on a platform of all, or on the world floor
Supported(p, all) ==
  \/ \E i \in 1..Len(all) :
       /\ Bottom(p) = all[i].y
       /\ p.x + p.width > all[i].x /\ p.x < all[i].x + all[i].width
  \/ Bottom(p) = world_height

\* C16: at the end of every frame, those that end in a respawn included, an
\* actor with on_ground set stands on a platform of the frame's platform set
\* or on the world floor
GroundedSupported ==
  player.on_ground => Supported(player, AllPlatforms(temp_platform))

\* the actor is at rest on a platform of the platform set of the frame
\* about to be made
Resting ==
  /\ player.on_ground /\ player.velocity_y = 0
  /\ \E plat \in FramePlatforms :
       /\ Bottom(player) = plat.y
       /\ player.x + player.width > plat.x /\ player.x < plat.x + plat.width

\* C17: Player::update of an actor at rest on a platform, with no jump key
\* held and no horizontal movement asked for, leaves the position as it was,
\* vertical velocity 0, on_ground set and the jump budget at 2
RestingFixedPoint ==
  [][(Resting /\ ~watch'.up_held /\ watch'.upd.velocity_x = 0) =>
       /\ watch'.upd.x = player.x /\ watch'.upd.y = player.y
       /\ watch'.upd.velocity_y = 0 /\ watch'.upd.on_ground
       /\ watch'.upd.jumps_available = max_jumps]_vars

\* the actor has stood on platform 7 through two frames with no key held
C17Witness ==
  /\ ticks = 2 /\ player = watch.upd
  /\ player.x = spawn_px /\ Bottom(player) = platforms[7].y
  /\ player.on_ground /\ player.velocity_x = 0 /\ player.velocity_y = 0
  /\ ~watch.up_held /\ watch.presses = 0 /\ temp_platform = NoPlatform
  /\ temp_platform_created = 0

\* C18: a frame ends with the actor reset by Player::die only if the box
\* Player::update left overlaps an obstacle strictly on both axes; a box that
\* only touches an obstacle is not reset
RespawnOnlyOnOverlap ==
  player /= watch.upd =>
    \E i \in 1..Len(obstacles) :
      /\ watch.upd.x < obstacles[i].x + obstacles[i].width
      /\ watch.upd.x + watch.upd.width > obstacles[i].x
      /\ watch.upd.y < obstacles[i].y + obstacles[i].height
      /\ watch.upd.y + watch.upd.height > obstacles[i].y

\* the actor's left edge is on the right edge of spike 1, the actor at the
\* spike's height, and the frame has not reset it
C18Witness ==
  /\ ticks >= 1 /\ player = watch.upd
  /\ player.x = obstacles[1].x + obstacles[1].width
  /\ player.y < obstacles[1].y + obstacles[1].height
  /\ Bottom(player) > obstacles[1].y

\* C19: a frame that ends in Player::die differs from what Player::update
\* left in the position, the velocity and the jump budget only: on_ground,
\* jump_in_progress, the spawn point and the size are as Player::update left
\* them, and the temp platform and its timestamps are as the lifecycle part
\* of the frame left them
RespawnFrame ==
  [][Respawned =>
       /\ player' = [watch'.upd EXCEPT !.x = watch'.upd.spawn_x,
                                       !.y = watch'.upd.spawn_y,
                                       !.velocity_x = 0, !.velocity_y = 0,
                                       !.jumps_available = max_jumps]
       /\ player'.spawn_x = player.spawn_x /\ player'.spawn_y = player.spawn_y
       /\ player'.width = player.width /\ player'.height = player.height
       /\ \/ temp_platform' = temp_platform
          \/ temp_platform' = NoPlatform
          \/ PlacedNow /\ temp_platform' = NewTempPlatform(player)
       /\ ~PlacedNow => temp_platform_last_placed' = temp_platform_last_placed
       /\ temp_platform_last_placed' = temp_platform_created']_vars

\* the actor has been reset from the ground, a temp platform in place
C19Witness ==
  /\ ticks >= 1 /\ player /= watch.upd /\ player.on_ground
  /\ player.x = spawn_px /\ player.y = spawn_py
  /\ temp_platform /= NoPlatform

\* C20: in a frame that begins before the clock has reached the cooldown
\* there is no temp platform and none has been placed; a temp platform that
\* exists was placed at a clock value of at least the cooldown
InitialCooldown ==
  /\ frame_ms < platform_cooldown =>
       /\ temp_platform = NoPlatform
       /\ temp_platform_created = 0 /\ temp_platform_last_placed = 0
  /\ temp_platform /= NoPlatform => temp_platform_created >= platform_cooldown

\* the create key was pressed LongStep ms after the start or later, before
\* the cooldown was over, and nothing was placed
C20Witness ==
  /\ ticks >= 1 /\ down_pressed_last_frame
  /\ frame_ms >= LongStep /\ frame_ms < platform_cooldown
  /\ temp_platform = NoPlatform /\ temp_platform_last_placed = 0

====
